---- MODULE Spec2Model ----
(***************************************************************************)
(* Rust pretty-printers for lldb and gdb (src/prettyPrinters).             *)
(*                                                                         *)
(* Two specifications share the variables below.                           *)
(*   SpecClassify  a type descriptor handed to lldb_lookup.synthetic_lookup*)
(*                 is classified (rust_types.py) and dispatched.           *)
(*   SpecProvider  a synthetic provider (providers.py, gdb_providers.py,   *)
(*                 jetbrains_lldb_pretty_printer.py) over the memory of    *)
(*                 the inferior: construction, memory mutation, update()   *)
(*                 and the count / child / name queries.                   *)
(*                                                                         *)
(* Python strings are sequences of one-character strings, so that the      *)
(* regular expressions and lstrip/rstrip/isdigit/int are computed on the   *)
(* characters, as the code computes them.                                  *)
(***************************************************************************)
EXTENDS Integers, Sequences, FiniteSets

VARIABLES
    valType,    \* SBType of the value being looked up: [kind, name, fields]
    pc,         \* position inside synthetic_lookup
    rust_type,  \* the local rust_type of synthetic_lookup
    provider,   \* the provider class synthetic_lookup returned
    depth,      \* number of re-dispatches into enum variants so far
    mem,        \* memory of the inferior under the root value
    prov,       \* the lldb synthetic provider's attributes (self.*)
    gdb,        \* the gdb provider's attributes (self.*)
    result,     \* the last query and what it returned
    fresh       \* update() has run and the memory has not changed since

vars == <<valType, pc, rust_type, provider, depth, mem, prov, gdb, result, fresh>>

\* the variables of synthetic_lookup
classifyVars == <<valType, pc, rust_type, provider, depth>>


(***************************************************************************)
(* Characters and Python string helpers                                    *)
(***************************************************************************)
Letters ==
    {"a","b","c","d","e","f","g","h","i","j","k","l","m",
     "n","o","p","q","r","s","t","u","v","w","x","y","z",
     "A","B","C","D","E","F","G","H","I","J","K","L","M",
     "N","O","P","Q","R","S","T","U","V","W","X","Y","Z"}

Digits == {"0","1","2","3","4","5","6","7","8","9"}

\* Python's None where a name is expected (an unnamed field); no string equals it.
None == <<"<None>">>

\* str(x) for a name that may be None
PyStr(x) == IF x = None THEN <<"N", "o", "n", "e">> ELSE x

\* s.startswith(p)
StartsWith(s, p) == Len(s) >= Len(p) /\ SubSeq(s, 1, Len(p)) = p

\* s[i:] with the 1-based position i
From(s, i) == SubSeq(s, i, Len(s))

\* mutant: the pattern without its "$"
EndAnchor_Missing(s, i) == TRUE

\* "$" of Python's re at the 1-based position i of s: the end of the string,
\* or just before a newline that ends the string.
EndAnchor(s, i) == i = Len(s) + 1 \/ (i = Len(s) /\ s[i] = "\n")

(***************************************************************************)
(* rust_types.py                                                           *)
(***************************************************************************)
OTHER_TYPE == "Other"
STRUCT == "Struct"
TUPLE == "Tuple"
CSTYLE_VARIANT == "CStyleVariant"
TUPLE_VARIANT == "TupleVariant"
STRUCT_VARIANT == "StructVariant"
EMPTY == "Empty"
SINGLETON_ENUM == "SingletonEnum"
REGULAR_ENUM == "RegularEnum"
COMPRESSED_ENUM == "CompressedEnum"
REGULAR_UNION == "RegularUnion"
STD_VEC == "StdVec"
STD_STRING == "StdString"
STD_STR == "StdStr"

\* the closed enumeration class RustType
RustType ==
    {OTHER_TYPE, STRUCT, TUPLE, CSTYLE_VARIANT, TUPLE_VARIANT, STRUCT_VARIANT, EMPTY,
     SINGLETON_ENUM, REGULAR_ENUM, COMPRESSED_ENUM, REGULAR_UNION,
     STD_VEC, STD_STRING, STD_STR}

\* what a failed "assert" raises instead of returning
AssertionError == "AssertionError"

ENCODED_ENUM_PREFIX ==
    <<"R", "U", "S", "T", "$", "E", "N", "C", "O", "D", "E", "D", "$", "E", "N", "U", "M", "$">>
ENUM_DISR_FIELD_NAME ==
    <<"R", "U", "S", "T", "$", "E", "N", "U", "M", "$", "D", "I", "S", "R">>

\* ([a-zA-Z]+::)+ matched against the whole of u
RECURSIVE PathSegments(_)
PathSegments(u) ==
    \E j \in 1..(Len(u) - 2) :
        /\ \A k \in 1..j : u[k] \in Letters
        /\ u[j + 1] = ":"
        /\ u[j + 2] = ":"
        /\ (j + 2 = Len(u) \/ PathSegments(From(u, j + 3)))

\* ^(alloc::([a-zA-Z]+::)+) matched against the whole of t
AllocPath(t) ==
    /\ StartsWith(t, <<"a", "l", "l", "o", "c", ":", ":">>)
    /\ PathSegments(From(t, 8))

\* re.match(STD_VEC_REGEX, name) with r"^(alloc::([a-zA-Z]+::)+)Vec<.+>$"
STD_VEC_REGEX(name) ==
    \E p \in 0..Len(name) :
        LET r == From(name, p + 1) IN
        /\ StartsWith(r, <<"V", "e", "c", "<">>)
        /\ AllocPath(SubSeq(name, 1, p))
        /\ \E q \in 5..(Len(r) - 1) :
              /\ \A k \in 5..q : r[k] # "\n"
              /\ r[q + 1] = ">"
              /\ EndAnchor(r, q + 2)

\* re.match(STD_STRING_REGEX, name) with r"^(alloc::([a-zA-Z]+::)+)String$"
STD_STRING_REGEX(name) ==
    \E p \in 0..Len(name) :
        LET r == From(name, p + 1) IN
        /\ StartsWith(r, <<"S", "t", "r", "i", "n", "g">>)
        /\ EndAnchor(r, 7)
        /\ AllocPath(SubSeq(name, 1, p))

\* re.match(STD_STR_REGEX, name) with r"^&str$"
STD_STR_REGEX(name) ==
    /\ StartsWith(name, <<"&", "s", "t", "r">>)
    /\ EndAnchor(name, 5)

\* re.match(TUPLE_ITEM_REGEX, s) with r"__\d+$": re.match anchors the start
TUPLE_ITEM_REGEX(s) ==
    /\ StartsWith(s, <<"_", "_">>)
    /\ \E q \in 3..Len(s) :
          /\ \A k \in 3..q : s[k] \in Digits
          /\ EndAnchor(s, q + 1)

\* mutant: any() for all()
is_tuple_fields_Any(fields) ==
    \E i \in 1..Len(fields) : TUPLE_ITEM_REGEX(PyStr(fields[i]))

is_tuple_fields(fields) ==
    \A i \in 1..Len(fields) : TUPLE_ITEM_REGEX(PyStr(fields[i]))

\* mutant: the name patterns tested before the empty check
classify_struct_NameFirst(name, fields) ==
    IF STD_VEC_REGEX(name) THEN STD_VEC
    ELSE IF STD_STRING_REGEX(name) THEN STD_STRING
    ELSE IF STD_STR_REGEX(name) THEN STD_STR
    ELSE IF Len(fields) = 0 THEN EMPTY
    ELSE IF fields[1] = ENUM_DISR_FIELD_NAME THEN
        IF Len(fields) = 1 THEN CSTYLE_VARIANT
        ELSE IF is_tuple_fields(Tail(fields)) THEN TUPLE_VARIANT
        ELSE STRUCT_VARIANT
    ELSE IF is_tuple_fields(fields) THEN TUPLE
    ELSE STRUCT

\* mutant: the field shape tested before the name patterns
classify_struct_ShapeFirst(name, fields) ==
    IF Len(fields) = 0 THEN EMPTY
    ELSE IF fields[1] = ENUM_DISR_FIELD_NAME THEN
        IF Len(fields) = 1 THEN CSTYLE_VARIANT
        ELSE IF is_tuple_fields(Tail(fields)) THEN TUPLE_VARIANT
        ELSE STRUCT_VARIANT
    ELSE IF STD_VEC_REGEX(name) THEN STD_VEC
    ELSE IF STD_STRING_REGEX(name) THEN STD_STRING
    ELSE IF STD_STR_REGEX(name) THEN STD_STR
    ELSE IF is_tuple_fields(fields) THEN TUPLE
    ELSE STRUCT

classify_struct(name, fields) ==
    IF Len(fields) = 0 THEN EMPTY
    ELSE IF STD_VEC_REGEX(name) THEN STD_VEC
    ELSE IF STD_STRING_REGEX(name) THEN STD_STRING
    ELSE IF STD_STR_REGEX(name) THEN STD_STR
    ELSE IF fields[1] = ENUM_DISR_FIELD_NAME THEN
        IF Len(fields) = 1 THEN CSTYLE_VARIANT
        ELSE IF is_tuple_fields(Tail(fields)) THEN TUPLE_VARIANT
        ELSE STRUCT_VARIANT
    ELSE IF is_tuple_fields(fields) THEN TUPLE
    ELSE STRUCT

\* mutant: an unnamed first variant is a RegularEnum whatever the variant count
classify_union_NoSingleton(fields) ==
    IF Len(fields) = 0 THEN EMPTY
    ELSE LET first_variant_name == fields[1] IN
        IF first_variant_name = None THEN REGULAR_ENUM
        ELSE IF StartsWith(first_variant_name, ENCODED_ENUM_PREFIX) THEN
            IF Len(fields) = 1 THEN COMPRESSED_ENUM ELSE AssertionError
        ELSE REGULAR_UNION

classify_union(fields) ==
    IF Len(fields) = 0 THEN EMPTY
    ELSE LET first_variant_name == fields[1] IN
        IF first_variant_name = None THEN
            IF Len(fields) = 1 THEN SINGLETON_ENUM ELSE REGULAR_ENUM
        ELSE IF StartsWith(first_variant_name, ENCODED_ENUM_PREFIX) THEN
            IF Len(fields) = 1 THEN COMPRESSED_ENUM ELSE AssertionError
        ELSE REGULAR_UNION

(***************************************************************************)
(* lldb_lookup.py                                                          *)
(***************************************************************************)
\* mutant: no "return RustType.OTHER" at the end
classify_rust_type_NoDefault(type) ==
    IF type.kind = "struct" THEN classify_struct(type.name, type.fields)
    ELSE IF type.kind = "union" THEN classify_union(type.fields)
    ELSE "None"

classify_rust_type(type) ==
    IF type.kind = "struct" THEN classify_struct(type.name, type.fields)
    ELSE IF type.kind = "union" THEN classify_union(type.fields)
    ELSE OTHER_TYPE

\* The provider object synthetic_lookup constructs for a tag that is not
\* re-dispatched: its class and the is_variant argument.
Provider(class, is_variant) == [class |-> class, is_variant |-> is_variant]

NoProvider == Provider("none", FALSE)

\* the mutant with a dedicated provider for unions
synthetic_lookup_provider_UnionAsStruct(tag) ==
    IF tag = STD_VEC THEN Provider("StdVecSyntheticProvider", FALSE)
    ELSE IF tag \in {STRUCT, REGULAR_UNION} THEN Provider("StructSyntheticProvider", FALSE)
    ELSE IF tag = STRUCT_VARIANT THEN Provider("StructSyntheticProvider", TRUE)
    ELSE IF tag = TUPLE THEN Provider("TupleSyntheticProvider", FALSE)
    ELSE IF tag = TUPLE_VARIANT THEN Provider("TupleSyntheticProvider", TRUE)
    ELSE IF tag = EMPTY THEN Provider("EmptySyntheticProvider", FALSE)
    ELSE Provider("DefaultSynthteticProvider", FALSE)

synthetic_lookup_provider(tag) ==
    IF tag = STD_VEC THEN Provider("StdVecSyntheticProvider", FALSE)
    ELSE IF tag = STRUCT THEN Provider("StructSyntheticProvider", FALSE)
    ELSE IF tag = STRUCT_VARIANT THEN Provider("StructSyntheticProvider", TRUE)
    ELSE IF tag = TUPLE THEN Provider("TupleSyntheticProvider", FALSE)
    ELSE IF tag = TUPLE_VARIANT THEN Provider("TupleSyntheticProvider", TRUE)
    ELSE IF tag = EMPTY THEN Provider("EmptySyntheticProvider", FALSE)
    ELSE Provider("DefaultSynthteticProvider", FALSE)

(***************************************************************************)
(* providers.py: the providers whose answers the type alone decides        *)
(***************************************************************************)
\* The host's generic enumeration of a value of the given type:
\* SBValue.GetNumChildren() and SBValue.MightHaveChildren().
HostNumChildren(type) == Len(type.fields)
HostMightHaveChildren(type) == Len(type.fields) > 0

TypeOnlyProviders ==
    {"DefaultSynthteticProvider", "EmptySyntheticProvider",
     "StructSyntheticProvider", "TupleSyntheticProvider"}

\* num_children() of a provider p constructed over a value of the given type
num_children_of(p, type) ==
    IF p.class = "EmptySyntheticProvider" THEN 0
    ELSE IF p.class = "DefaultSynthteticProvider" THEN HostNumChildren(type)
    ELSE IF p.is_variant THEN Len(type.fields) - 1
    ELSE Len(type.fields)

\* has_children() of a provider p constructed over a value of the given type
has_children_of(p, type) ==
    IF p.class = "EmptySyntheticProvider" THEN FALSE
    ELSE IF p.class = "DefaultSynthteticProvider" THEN HostMightHaveChildren(type)
    ELSE TRUE

(***************************************************************************)
(* Inputs of the classification: type descriptors                          *)
(***************************************************************************)
MaxFields == 3
MaxDepth == 2
MaxDiscriminant == 3

\* Qualified names: crate root, module path, head, tail.
NameRoots == {<<>>, <<"a", "l", "l", "o", "c", ":", ":">>}
NamePaths == {<<>>, <<"v", "e", "c", ":", ":">>,
              <<"s", "y", "n", "c", ":", ":", "v", "e", "c", ":", ":">>,
              <<"r", "a", "w", "_", "v", "e", "c", ":", ":">>}
NameHeads == {<<"V", "e", "c">>, <<"S", "t", "r", "i", "n", "g">>}
NameTails == {<<>>, <<"<", "T", ">">>, <<"W", "r", "a", "p", "p", "e", "r">>,
              <<"<", "T", ">", "x">>}

QualifiedNames ==
    {r \o p \o h \o t :
        r \in NameRoots, p \in NamePaths, h \in NameHeads, t \in NameTails}

\* user types whose names only contain a container's name
My == <<"M", "y">>
UserNames ==
    {My \o n : n \in {<<"V", "e", "c", "W", "r", "a", "p", "p", "e", "r">>,
                      <<"a", "l", "l", "o", "c", ":", ":", "v", "e", "c", ":", ":",
                        "V", "e", "c", "<", "T", ">">>,
                      <<"a", "l", "l", "o", "c", ":", ":", "v", "e", "c", ":", ":",
                        "S", "t", "r", "i", "n", "g">>,
                      <<"&", "s", "t", "r">>}}

\* &str and its near misses
StrNames ==
    {<<"&", "s", "t", "r">>, <<"s", "t", "r">>,
     <<"&", "s", "t", "r", "W", "r", "a", "p", "p", "e", "r">>}

Names == QualifiedNames \cup UserNames \cup StrNames

StructFieldNames ==
    {ENUM_DISR_FIELD_NAME, <<"_", "_", "0">>, <<"_", "_", "1", "2">>,
     <<"_", "_", "0", "x">>, <<"V", "e", "c">>, None}

UnionFieldNames ==
    {None, ENCODED_ENUM_PREFIX \o <<"0", "$", "N", "o", "n", "e">>, <<"S", "o", "m", "e">>}

SeqsUpTo(S, n) == UNION {[1..k -> S] : k \in 0..n}

Type(kind, name, fields) == [kind |-> kind, name |-> name, fields |-> fields]

StructTypes == {Type("struct", n, f) : n \in Names, f \in SeqsUpTo(StructFieldNames, MaxFields)}
UnionTypes == {Type("union", n, f) : n \in Names, f \in SeqsUpTo(UnionFieldNames, MaxFields)}
\* pointers, integers, ...: no fields
OtherTypes == {Type("other", n, <<>>) : n \in Names}
\* the type of an invalid SBValue (a child index past the last child)
InvalidType == Type("invalid", <<>>, <<>>)

Types == StructTypes \cup UnionTypes \cup OtherTypes

\* the types the variants of an enum's union may have
VariantName == <<"S", "o", "m", "e">>
VariantTypes ==
    {Type("struct", VariantName, f) :
        f \in {<<ENUM_DISR_FIELD_NAME>>,
               <<ENUM_DISR_FIELD_NAME, <<"_", "_", "0">>>>,
               <<ENUM_DISR_FIELD_NAME, <<"V", "e", "c">>>>,
               <<<<"_", "_", "0">>>>}}
    \cup {Type("union", VariantName, <<None>>)}

(***************************************************************************)
(* Python string methods used by the providers                             *)
(***************************************************************************)
\* s.lstrip(c) for a one-character c
RECURSIVE lstrip(_, _)
lstrip(s, c) == IF Len(s) > 0 /\ Head(s) = c THEN lstrip(Tail(s), c) ELSE s

\* s.rstrip(c) for a one-character c
RECURSIVE rstrip(_, _)
rstrip(s, c) ==
    IF Len(s) > 0 /\ s[Len(s)] = c THEN rstrip(SubSeq(s, 1, Len(s) - 1), c) ELSE s

\* s.isdigit()
isdigit(s) == Len(s) > 0 /\ \A i \in 1..Len(s) : s[i] \in Digits

DigitChars == <<"0", "1", "2", "3", "4", "5", "6", "7", "8", "9">>
DigitValue(c) == (CHOOSE k \in 1..10 : DigitChars[k] = c) - 1

\* int(s) for a string of digits
RECURSIVE int_of_str(_)
int_of_str(s) ==
    IF Len(s) = 0 THEN 0
    ELSE int_of_str(SubSeq(s, 1, Len(s) - 1)) * 10 + DigitValue(s[Len(s)])

\* str(n) for n >= 0
RECURSIVE str_of_int(_)
str_of_int(n) ==
    IF n < 10 THEN <<DigitChars[n + 1]>>
    ELSE str_of_int(n \div 10) \o <<DigitChars[(n % 10) + 1]>>

\* "[%s]" % index
BracketName(index) == <<"[">> \o str_of_int(index) \o <<"]">>

\* reading an attribute that was never assigned
HasAttr(obj, attr) == attr \in DOMAIN obj

\* What a query returns: a Python int, bool or None, a raised exception, or
\* an SBValue with its display name and address.
IntResult(n) == [type |-> "int", int |-> n]
BoolResult(b) == [type |-> "bool", bool |-> b]
NoneResult == [type |-> "None"]
Raised(e) == [type |-> "exception", exception |-> e]
SBValue(name, address) == [type |-> "SBValue", name |-> name, address |-> address]

\* a query (op, arg) and what it returned
Result(op, arg, val) == [op |-> op, arg |-> arg, val |-> val]

\* The host's generic enumeration of a value of the given type, continued.
\* SBValue.GetIndexOfChildWithName(name): the index of the first child of
\* that name, UINT32_MAX when there is none (2^32 - 1; the integers of the
\* model checker end at 2^31 - 1, which stands for it here: no field count
\* and no index of the model comes near either)
UINT32_MAX == 2147483647
HostIndexOfChildWithName(type, name) ==
    LET found == {i \in 1..Len(type.fields) : type.fields[i] = name}
    IN IF found = {} THEN UINT32_MAX
       ELSE (CHOOSE i \in found : \A j \in found : i <= j) - 1

\* the child at a position of the value, and the invalid SBValue
ChildValue(type, index) == SBValue(type.fields[index + 1], [child |-> index])
InvalidValue == SBValue(None, [child |-> -1])

\* SBValue.GetChildAtIndex(index)
HostChildAtIndex(type, index) ==
    IF index < Len(type.fields) THEN ChildValue(type, index) ELSE InvalidValue

\* SBValue.GetChildMemberWithName(name): the first child of that name.  What
\* the binding does with a name that is None is the host's: it raises, or it
\* finds no child.
HostChildMemberWithName(type, name) ==
    IF name = None THEN {Raised("TypeError"), InvalidValue}
    ELSE IF HostIndexOfChildWithName(type, name) = UINT32_MAX THEN {InvalidValue}
    ELSE {ChildValue(type, HostIndexOfChildWithName(type, name))}

\* SBType.GetFieldAtIndex(index).name: None past the last field
FieldNameAt(type, index) ==
    IF index < Len(type.fields) THEN type.fields[index + 1] ELSE None

\* the dict StructSyntheticProvider.__init__ builds: the number of a field
\* name among real_fields, the last one of that name
StructFields(p, type) ==
    LET skip == IF p.is_variant THEN 1 ELSE 0
        named == [name \in {type.fields[i] : i \in (skip + 1)..Len(type.fields)} |->
                    LET at == {i \in (skip + 1)..Len(type.fields) : type.fields[i] = name}
                    IN (CHOOSE i \in at : \A j \in at : i >= j) - skip - 1]
    IN named

\* get_child_index(name) of a provider p constructed over a value of the type
get_child_index_of(p, type, name) ==
    IF p.class = "EmptySyntheticProvider" THEN NoneResult
    ELSE IF p.class = "DefaultSynthteticProvider"
        THEN IntResult(HostIndexOfChildWithName(type, name))
    ELSE IF p.class = "StructSyntheticProvider"
        THEN (IF name \in DOMAIN StructFields(p, type)
              THEN IntResult(StructFields(p, type)[name])
              ELSE IntResult(-1))
    ELSE IF isdigit(name) THEN IntResult(int_of_str(name))
    ELSE IntResult(-1)

\* what get_child_at_index(index) of a provider p constructed over a value
\* of the type may return
get_child_at_index_of(p, type, index) ==
    LET field_name == FieldNameAt(type, IF p.is_variant THEN index + 1 ELSE index)
        members == HostChildMemberWithName(type, field_name)
    IN IF p.class = "EmptySyntheticProvider" THEN {NoneResult}
       ELSE IF p.class = "DefaultSynthteticProvider" THEN {HostChildAtIndex(type, index)}
       ELSE IF p.class = "StructSyntheticProvider" THEN members
       ELSE {IF element.type = "SBValue"
             THEN SBValue(IF element = InvalidValue THEN None ELSE str_of_int(index),
                          element.address)
             ELSE element : element \in members}
NoResult == Result("none", 0, NoneResult)
Idle == [class |-> "none", kind |-> "none"]

\* the names the host looks up
LookupNames ==
    {<<"_", "_", "0">>, <<"V", "e", "c">>, <<"0">>, <<"7">>, <<"x">>}

(***************************************************************************)
(* lldb_lookup.synthetic_lookup, one call frame at a time                  *)
(***************************************************************************)
InitClassify ==
    /\ valType \in Types
    /\ pc = "lookup"
    /\ rust_type = "unset"
    /\ provider = NoProvider
    /\ depth = 0
    /\ mem = Idle
    /\ prov = Idle
    /\ gdb = Idle
    /\ result = NoResult
    /\ fresh = FALSE

\* rust_type = classify_rust_type(valobj.GetType())
ClassifyRustType ==
    /\ pc = "lookup"
    /\ LET t == classify_rust_type(valType) IN
        /\ rust_type' = t
        /\ pc' = IF t = AssertionError THEN "raised" ELSE "classified"
    /\ UNCHANGED <<valType, provider, depth, mem, prov, gdb, result, fresh>>

\* the branches that construct a provider and return it
SyntheticLookupReturn ==
    /\ pc = "classified"
    /\ rust_type \notin {REGULAR_ENUM, SINGLETON_ENUM}
    /\ provider' = synthetic_lookup_provider(rust_type)
    /\ pc' = "returned"
    /\ UNCHANGED <<valType, rust_type, depth, mem, prov, gdb, result, fresh>>

\* return synthetic_lookup(valobj.GetChildAtIndex(discriminant), dict) and
\* return synthetic_lookup(valobj.GetChildAtIndex(0), dict)
SyntheticLookupRedispatch ==
    /\ pc = "classified"
    /\ rust_type \in {REGULAR_ENUM, SINGLETON_ENUM}
    /\ depth < MaxDepth
    /\ \E discriminant \in 0..MaxDiscriminant :
        /\ rust_type = SINGLETON_ENUM => discriminant = 0
        /\ IF discriminant < Len(valType.fields)
           THEN valType' \in VariantTypes
           ELSE valType' = InvalidType
    /\ pc' = "lookup"
    /\ rust_type' = "unset"
    /\ depth' = depth + 1
    /\ UNCHANGED <<provider, mem, prov, gdb, result, fresh>>

\* The host asks the returned provider one thing at a time.
\* num_children() of the returned provider
QueryNumChildren ==
    /\ pc = "returned"
    /\ result = NoResult
    /\ provider.class \in TypeOnlyProviders
    /\ result' = Result("num_children", 0, IntResult(num_children_of(provider, valType)))
    /\ UNCHANGED <<valType, pc, rust_type, provider, depth, mem, prov, gdb, fresh>>

\* has_children() of the returned provider
QueryHasChildren ==
    /\ pc = "returned"
    /\ result = NoResult
    /\ provider.class \in TypeOnlyProviders
    /\ result' = Result("has_children", 0, BoolResult(has_children_of(provider, valType)))
    /\ UNCHANGED <<valType, pc, rust_type, provider, depth, mem, prov, gdb, fresh>>

\* get_child_index(name) of the returned provider
QueryGetChildIndex ==
    /\ pc = "returned"
    /\ result = NoResult
    /\ provider.class \in TypeOnlyProviders
    /\ \E name \in LookupNames :
        result' = Result("get_child_index", name, get_child_index_of(provider, valType, name))
    /\ UNCHANGED <<valType, pc, rust_type, provider, depth, mem, prov, gdb, fresh>>

\* get_child_at_index(index) of the returned provider
QueryGetChildAtIndex ==
    /\ pc = "returned"
    /\ result = NoResult
    /\ provider.class \in TypeOnlyProviders
    /\ \E index \in 0..MaxFields :
        \E val \in get_child_at_index_of(provider, valType, index) :
            result' = Result("get_child_at_index", index, val)
    /\ UNCHANGED <<valType, pc, rust_type, provider, depth, mem, prov, gdb, fresh>>

NextClassify ==
    \/ ClassifyRustType
    \/ SyntheticLookupReturn
    \/ SyntheticLookupRedispatch
    \/ QueryNumChildren
    \/ QueryHasChildren

SpecClassify == InitClassify /\ [][NextClassify]_vars

(***************************************************************************)
(* Properties of the classification                                        *)
(***************************************************************************)
\* synthetic_lookup holds the tag of valType in rust_type
Classified == pc \in {"classified", "returned"}

\* the call of classify_rust_type has ended, with a tag or with an exception
ClassifyEnded == pc \in {"classified", "returned", "raised"}

\* C1: a struct or union with zero fields is classified Empty whatever its
\* name, and the provider dispatched for it reports num_children() = 0 and
\* has_children() = False.
C1_EmptyForZeroFields ==
    (ClassifyEnded /\ valType.kind \in {"struct", "union"} /\ Len(valType.fields) = 0)
        => /\ rust_type = EMPTY
           /\ pc = "returned" => provider.class = "EmptySyntheticProvider"
           /\ result.op = "num_children" => result.val = IntResult(0)
           /\ result.op = "has_children" => result.val = BoolResult(FALSE)

C1_Witness ==
    /\ valType.kind = "struct"
    /\ STD_VEC_REGEX(valType.name)
    /\ Len(valType.fields) = 0
    /\ result.op = "has_children"

\* the tag of the container whose pattern the name matches, "none" without one
ContainerOfName(name) ==
    IF STD_VEC_REGEX(name) THEN STD_VEC
    ELSE IF STD_STRING_REGEX(name) THEN STD_STRING
    ELSE IF STD_STR_REGEX(name) THEN STD_STR
    ELSE "none"

\* C2: a struct with at least one field whose name matches a container
\* pattern gets that container's tag, whatever its field names are.
C2_ContainerNameWins ==
    (ClassifyEnded /\ valType.kind = "struct" /\ Len(valType.fields) >= 1
        /\ ContainerOfName(valType.name) # "none")
        => rust_type = ContainerOfName(valType.name)

C2_Witness ==
    /\ Classified
    /\ valType.kind = "struct"
    /\ STD_VEC_REGEX(valType.name)
    /\ Len(valType.fields) = MaxFields
    /\ valType.fields[1] = ENUM_DISR_FIELD_NAME
    /\ \A i \in 2..Len(valType.fields) : valType.fields[i] = <<"_", "_", "0">>

\* the positional field names (__N) among the field names of the inputs
PositionalNames == {<<"_", "_", "0">>, <<"_", "_", "1", "2">>}

AllPositional(fields) == \A i \in 1..Len(fields) : fields[i] \in PositionalNames

\* C3: a non-empty struct whose name matches no container pattern is, with
\* RUST$ENUM$DISR as first field, CStyleVariant when no other field exists,
\* TupleVariant when every remaining field is positional and StructVariant
\* otherwise; without the marker, Tuple when every field is positional and
\* Struct otherwise.
C3_StructShape ==
    (ClassifyEnded /\ valType.kind = "struct" /\ Len(valType.fields) >= 1
        /\ ContainerOfName(valType.name) = "none")
        => LET f == valType.fields IN
           rust_type =
               IF f[1] = ENUM_DISR_FIELD_NAME THEN
                   IF Len(f) = 1 THEN CSTYLE_VARIANT
                   ELSE IF AllPositional(Tail(f)) THEN TUPLE_VARIANT
                   ELSE STRUCT_VARIANT
               ELSE IF AllPositional(f) THEN TUPLE
               ELSE STRUCT

C3_Witness ==
    /\ Classified
    /\ valType.kind = "struct"
    /\ ContainerOfName(valType.name) = "none"
    /\ Len(valType.fields) = 3
    /\ valType.fields[1] = ENUM_DISR_FIELD_NAME
    /\ valType.fields[2] = <<"_", "_", "0">>
    /\ valType.fields[3] = <<"V", "e", "c">>
    /\ rust_type = STRUCT_VARIANT

\* the first variant's name carries the prefix RUST$ENCODED$ENUM$
FirstVariantEncoded ==
    /\ valType.fields[1] # None
    /\ StartsWith(valType.fields[1], ENCODED_ENUM_PREFIX)

Alloc == <<"a", "l", "l", "o", "c", ":", ":">>
AlphabeticPaths ==
    {<<"v", "e", "c", ":", ":">>, <<"s", "y", "n", "c", ":", ":", "v", "e", "c", ":", ":">>}
FullVecNames == {Alloc \o p \o <<"V", "e", "c", "<", "T", ">">> : p \in AlphabeticPaths}
FullStringNames == {Alloc \o p \o <<"S", "t", "r", "i", "n", "g">> : p \in AlphabeticPaths}
FullStrNames == {<<"&", "s", "t", "r">>}

\* C6: only a struct whose whole name is an alloc:: path of alphabetic
\* segments followed by Vec<...> is classified StdVec (a name that contains
\* or ends with Vec is not), and the same holds for String and &str.
C6_AnchoredNames ==
    ClassifyEnded
        => /\ rust_type = STD_VEC => valType.name \in FullVecNames
           /\ rust_type = STD_STRING => valType.name \in FullStringNames
           /\ rust_type = STD_STR => valType.name \in FullStrNames

C6_Witness ==
    /\ Classified
    /\ valType.kind = "struct"
    /\ valType.name = My \o <<"V", "e", "c", "W", "r", "a", "p", "p", "e", "r">>
    /\ Len(valType.fields) = 1
    /\ valType.fields[1] = <<"V", "e", "c">>
    /\ rust_type = STRUCT

(***************************************************************************)
(* The inferior's memory under the displayed value                         *)
(***************************************************************************)
MaxLen == 5
MaxCap == 4
MaxCount == 3

DataAddrs == {4096, 8192}
ElemSizes == {1, 8}

\* alloc::vec::Vec<T>: len, and the pointer at the end of buf.ptr.pointer.__0
VecMemories ==
    [kind : {"Vec"}, len : 0..MaxLen, ptr : DataAddrs, elem_size : ElemSizes]

\* alloc::collections::vec_deque::VecDeque<T>: tail, head, buf.cap and the
\* pointer of buf; head and tail index the buffer
DequeMemories ==
    {m \in [kind : {"Deque"}, head : 0..(MaxCap - 1), tail : 0..(MaxCap - 1),
            cap : 1..MaxCap, ptr : DataAddrs, elem_size : ElemSizes] :
        m.head < m.cap /\ m.tail < m.cap}

\* alloc::rc::Rc<T>: ptr points to one of the RcBox<T> blocks, each with its
\* strong and weak counters and its value
BoxAddrs == {12288, 16384}
MaxWeak == 2
RcMemories ==
    [kind : {"Rc"}, ptr : BoxAddrs,
     boxes : [BoxAddrs -> [strong : 1..MaxCount, weak : 1..MaxWeak]]]

\* alloc::collections::btree::map::BTreeMap<K, V>: root.height and root.node;
\* a LeafNode holds len, keys and vals, an InternalNode holds a LeafNode (data)
\* and len + 1 edges.  A node is written with the nodes its edges point to.
MaxHeight == 2
MaxNodeLen == 2
MaxKey == 7
KeySizes == {4}
ValSizes == {8}

\* the value the map holds for key k
ValueOf(k) == k + 100

LeafNode(ks) ==
    [len |-> Len(ks), keys |-> ks, vals |-> [i \in 1..Len(ks) |-> ValueOf(ks[i])],
     edges |-> <<>>]
InternalNode(ks, es) ==
    [len |-> Len(ks), keys |-> ks, vals |-> [i \in 1..Len(ks) |-> ValueOf(ks[i])],
     edges |-> es]

\* the strictly ascending key arrays of n keys between lo and hi
RECURSIVE KeyArrays(_, _, _)
KeyArrays(lo, hi, n) ==
    IF n = 0 THEN {<<>>}
    ELSE UNION {{<<k>> \o rest : rest \in KeyArrays(k + 1, hi, n - 1)} : k \in lo..hi}

\* the well-formed subtrees of height h whose keys lie between lo and hi: a
\* node has 1..MaxNodeLen ascending keys, all leaves are at the same depth,
\* and the keys under edge i lie between key i-1 and key i
RECURSIVE Subtrees(_, _, _)
RECURSIVE EdgeArrays(_, _, _, _, _)
Subtrees(h, lo, hi) ==
    UNION {IF h = 0 THEN {LeafNode(ks)}
           ELSE {InternalNode(ks, es) : es \in EdgeArrays(h, ks, lo, hi, 0)}
           : ks \in UNION {KeyArrays(lo, hi, n) : n \in 1..MaxNodeLen}}

\* the arrays of the edges i..len of a node of height h with keys ks
EdgeArrays(h, ks, lo, hi, i) ==
    IF i > Len(ks) THEN {<<>>}
    ELSE LET from == IF i = 0 THEN lo ELSE ks[i] + 1
             to == IF i = Len(ks) THEN hi ELSE ks[i + 1] - 1
         IN UNION {{<<e>> \o rest : rest \in EdgeArrays(h, ks, lo, hi, i + 1)}
                   : e \in Subtrees(h - 1, from, to)}

BTreeMemories ==
    [kind : {"BTreeMap"}, height : {0}, root : {LeafNode(<<>>)},
     key_size : KeySizes, val_size : ValSizes]
    \cup UNION {[kind : {"BTreeMap"}, height : {h}, root : Subtrees(h, 1, MaxKey),
                 key_size : KeySizes, val_size : ValSizes] : h \in 0..MaxHeight}

Memories == VecMemories \cup DequeMemories \cup RcMemories \cup BTreeMemories

\* the indices and names the host asks for
Indices == 0..(MaxLen + 1)
ChildNames ==
    {<<"[", "0", "]">>, <<"[", "1", "]">>, <<"[", "3", "]">>, <<"[", "[", "2", "]", "]">>,
     <<"1", "0">>, <<"[", "x", "]">>, <<"[", "]">>, <<>>,
     <<"v", "a", "l", "u", "e">>, <<"s", "t", "r", "o", "n", "g">>, <<"w", "e", "a", "k">>}

(***************************************************************************)
(* providers.py StdVecSyntheticProvider and                                *)
(* jetbrains_lldb_pretty_printer.py StdVecProvider                         *)
(***************************************************************************)
VecClasses == {"StdVecSyntheticProvider", "StdVecProvider"}

\* update(): length and the element size are read now; data_ptr is the handle
\* of the pointer field inside the value, read when a child is made.
StdVec_update(p, m) ==
    [class |-> p.class, length |-> m.len, element_type_size |-> m.elem_size]

StdVec_num_children(p) ==
    IF HasAttr(p, "length") THEN IntResult(p.length) ELSE Raised("AttributeError")

StdVec_get_child_index(name) ==
    LET index == rstrip(lstrip(name, "["), "]") IN
    IF isdigit(index) THEN IntResult(int_of_str(index)) ELSE IntResult(-1)

\* mutant: an index at or past the length gives None
StdVec_get_child_at_index_Checked(p, m, index) ==
    IF ~HasAttr(p, "element_type_size") THEN Raised("AttributeError")
    ELSE IF index >= p.length THEN NoneResult
    ELSE SBValue(BracketName(index), m.ptr + index * p.element_type_size)

\* mutant: the index is not scaled by the element size
StdVec_get_child_at_index_Unscaled(p, m, index) ==
    IF ~HasAttr(p, "element_type_size") THEN Raised("AttributeError")
    ELSE SBValue(BracketName(index), m.ptr + index)

StdVec_get_child_at_index(p, m, index) ==
    IF ~HasAttr(p, "element_type_size") THEN Raised("AttributeError")
    ELSE LET start == m.ptr
             address == start + index * p.element_type_size
         IN SBValue(BracketName(index), address)

InitProvider ==
    /\ mem \in Memories
    /\ prov = Idle
    /\ gdb = Idle
    /\ result = NoResult
    /\ fresh = FALSE
    /\ valType = InvalidType
    /\ pc = "idle"
    /\ rust_type = "unset"
    /\ provider = NoProvider
    /\ depth = 0

\* StdVecSyntheticProvider.__init__: self.valobj = valobj; self.update()
StdVecSyntheticProvider_init ==
    /\ result = NoResult
    /\ mem.kind = "Vec"
    /\ prov = Idle
    /\ prov' = StdVec_update([class |-> "StdVecSyntheticProvider"], mem)
    /\ fresh' = TRUE
    /\ result' = NoResult
    /\ UNCHANGED <<mem, gdb, classifyVars>>

\* StdVecProvider.__init__ (JetBrains): self.valobj = valobj, and no update()
StdVecProvider_init ==
    /\ result = NoResult
    /\ mem.kind = "Vec"
    /\ prov = Idle
    /\ prov' = [class |-> "StdVecProvider"]
    /\ fresh' = FALSE
    /\ result' = NoResult
    /\ UNCHANGED <<mem, gdb, classifyVars>>

StdVec_Update ==
    /\ result = NoResult
    /\ prov.class \in VecClasses
    /\ prov' = StdVec_update(prov, mem)
    /\ fresh' = TRUE
    /\ result' = NoResult
    /\ UNCHANGED <<mem, gdb, classifyVars>>

StdVec_NumChildren ==
    /\ result = NoResult
    /\ prov.class \in VecClasses
    /\ result' = Result("num_children", 0, StdVec_num_children(prov))
    /\ UNCHANGED <<mem, prov, gdb, fresh, classifyVars>>

StdVec_GetChildAtIndex ==
    /\ result = NoResult
    /\ prov.class \in VecClasses
    /\ \E index \in Indices :
        result' = Result("get_child_at_index", index,
                         StdVec_get_child_at_index(prov, mem, index))
    /\ UNCHANGED <<mem, prov, gdb, fresh, classifyVars>>

StdVec_GetChildIndex ==
    /\ result = NoResult
    /\ prov.class \in VecClasses
    /\ \E name \in ChildNames :
        result' = Result("get_child_index", name, StdVec_get_child_index(name))
    /\ UNCHANGED <<mem, prov, gdb, fresh, classifyVars>>

\* the inferior runs: the vector grows, shrinks or reallocates
MutateVec ==
    /\ result = NoResult
    /\ mem.kind = "Vec"
    /\ \E m \in VecMemories :
        /\ m.elem_size = mem.elem_size
        /\ m # mem
        /\ mem' = m
    /\ fresh' = FALSE
    /\ result' = NoResult
    /\ UNCHANGED <<prov, gdb, classifyVars>>

(***************************************************************************)
(* providers.py StdVecDequeSyntheticProvider                               *)
(***************************************************************************)
DequeClass == "StdVecDequeSyntheticProvider"

\* mutant: the wrapped size without the capacity
StdVecDeque_update_NoWrap(p, m) ==
    [class |-> p.class, head |-> m.head, tail |-> m.tail, cap |-> m.cap,
     size |-> IF m.head >= m.tail THEN m.head - m.tail ELSE m.tail - m.head,
     element_type_size |-> m.elem_size]

StdVecDeque_update(p, m) ==
    [class |-> p.class, head |-> m.head, tail |-> m.tail, cap |-> m.cap,
     size |-> IF m.head >= m.tail THEN m.head - m.tail ELSE m.cap + m.head - m.tail,
     element_type_size |-> m.elem_size]

StdVecDeque_num_children(p) == IntResult(p.size)

\* index is a str: "self.tail <= index" raises TypeError in Python 3; in
\* Python 2 an int orders before a str, the test is True, and
\* "self.tail + index" raises TypeError. A name that is not numeric stops at
\* index.isdigit() and gives -1.
StdVecDeque_get_child_index(p, name) ==
    LET index == rstrip(lstrip(name, "["), "]") IN
    IF isdigit(index) THEN Raised("TypeError") ELSE IntResult(-1)

\* mutant: the slot is not reduced modulo the capacity
StdVecDeque_get_child_at_index_NoModulo(p, m, index) ==
    SBValue(BracketName(index), m.ptr + (index + p.tail) * p.element_type_size)

StdVecDeque_get_child_at_index(p, m, index) ==
    IF p.cap = 0 THEN Raised("ZeroDivisionError")
    ELSE LET start == m.ptr
             address == start + ((index + p.tail) % p.cap) * p.element_type_size
         IN SBValue(BracketName(index), address)

\* StdVecDequeSyntheticProvider.__init__: self.valobj = valobj; self.update()
StdVecDeque_init ==
    /\ result = NoResult
    /\ mem.kind = "Deque"
    /\ prov = Idle
    /\ prov' = StdVecDeque_update([class |-> DequeClass], mem)
    /\ fresh' = TRUE
    /\ result' = NoResult
    /\ UNCHANGED <<mem, gdb, classifyVars>>

StdVecDeque_Update ==
    /\ result = NoResult
    /\ prov.class = DequeClass
    /\ prov' = StdVecDeque_update(prov, mem)
    /\ fresh' = TRUE
    /\ result' = NoResult
    /\ UNCHANGED <<mem, gdb, classifyVars>>

StdVecDeque_NumChildren ==
    /\ result = NoResult
    /\ prov.class = DequeClass
    /\ result' = Result("num_children", 0, StdVecDeque_num_children(prov))
    /\ UNCHANGED <<mem, prov, gdb, fresh, classifyVars>>

StdVecDeque_GetChildAtIndex ==
    /\ result = NoResult
    /\ prov.class = DequeClass
    /\ \E index \in Indices :
        result' = Result("get_child_at_index", index,
                         StdVecDeque_get_child_at_index(prov, mem, index))
    /\ UNCHANGED <<mem, prov, gdb, fresh, classifyVars>>

StdVecDeque_GetChildIndex ==
    /\ result = NoResult
    /\ prov.class = DequeClass
    /\ \E name \in ChildNames :
        result' = Result("get_child_index", name, StdVecDeque_get_child_index(prov, name))
    /\ UNCHANGED <<mem, prov, gdb, fresh, classifyVars>>

\* the inferior runs: push and pop move head and tail, the buffer grows or moves
MutateDeque ==
    /\ result = NoResult
    /\ mem.kind = "Deque"
    /\ \E m \in DequeMemories :
        /\ m.elem_size = mem.elem_size
        /\ m # mem
        /\ \/ m = [mem EXCEPT !.head = m.head]
           \/ m = [mem EXCEPT !.tail = m.tail]
           \/ m = [mem EXCEPT !.cap = m.cap, !.ptr = m.ptr]
        /\ mem' = m
    /\ fresh' = FALSE
    /\ gdb' = Idle
    /\ result' = NoResult
    /\ UNCHANGED <<prov, classifyVars>>

(***************************************************************************)
(* gdb_providers.py StdVecDequeProvider                                    *)
(***************************************************************************)
\* (data_ptr + k).dereference(): pointer arithmetic in elements
GdbElementAt(data_ptr, k, elem_size) == data_ptr + k * elem_size

\* the list children() yields: (str(index), element) for index in xrange(0, size)
GdbDeque_children(g) ==
    [k \in 1..g.size |->
        [name |-> str_of_int(k - 1),
         address |-> GdbElementAt(g.data_ptr, (g.tail + (k - 1)) % g.cap, g.elem_size)]]

\* gdb prints the value: StdVecDequeProvider.__init__, then children()
GdbStdVecDequeProvider ==
    /\ result = NoResult
    /\ mem.kind = "Deque"
    /\ gdb = Idle
    /\ LET g == [class |-> "StdVecDequeProvider",
                 head |-> mem.head, tail |-> mem.tail, cap |-> mem.cap,
                 size |-> IF mem.head >= mem.tail THEN mem.head - mem.tail
                          ELSE mem.cap + mem.head - mem.tail,
                 data_ptr |-> mem.ptr, elem_size |-> mem.elem_size]
       IN gdb' = [provider |-> g, children |-> GdbDeque_children(g),
                  class |-> g.class, kind |-> "printed"]
    /\ UNCHANGED <<mem, prov, result, fresh, classifyVars>>

(***************************************************************************)
(* providers.py StdRcSyntheticProvider                                     *)
(***************************************************************************)
RcClass == "StdRcSyntheticProvider"

\* A located value: the block and the field inside it.
Handle(box, field) == [box |-> box, field |-> field]

\* An SBValue that GetChildMemberWithName made through a pointer.  The provider
\* keeps the object; whether the host resolves it again through the pointer
\* when it is read (follows) or keeps the block the pointer held when the
\* object was made is the host's, and either can happen.
Child(box, field, follows) == [box |-> box, field |-> field, follows |-> follows]

\* where a kept SBValue is when it is read
Located(h, m) == Handle(IF h.follows THEN m.ptr ELSE h.box, h.field)

\* ValueBuilder.from_uint(name, value)
from_uint(name, value) == [type |-> "SBValue", name |-> name, uint |-> value]

StdRc_update(p, m) ==
    [p EXCEPT !.strong_count = m.boxes[Located(p.strong, m).box].strong,
              !.weak_count = m.boxes[Located(p.weak, m).box].weak]

StdRc_num_children == IntResult(1)

StdRc_get_child_index(name) ==
    IF name = <<"v", "a", "l", "u", "e">> THEN IntResult(0)
    ELSE IF name = <<"s", "t", "r", "o", "n", "g">> THEN IntResult(1)
    ELSE IF name = <<"w", "e", "a", "k">> THEN IntResult(2)
    ELSE IntResult(-1)

StdRc_get_child_at_index(p, m, index) ==
    IF index = 0 THEN SBValue(<<"v", "a", "l", "u", "e">>, Located(p.value, m))
    ELSE IF index = 1 THEN from_uint(<<"s", "t", "r", "o", "n", "g">>, p.strong_count)
    ELSE IF index = 2 THEN from_uint(<<"w", "e", "a", "k">>, p.weak_count)
    ELSE NoneResult

\* StdRcSyntheticProvider.__init__: ptr, value, strong and weak are resolved
\* once, here; then self.update()
StdRc_init ==
    /\ result = NoResult
    /\ mem.kind = "Rc"
    /\ prov = Idle
    /\ \E follows \in BOOLEAN :
        LET ptr == mem.ptr
            p == [class |-> RcClass,
                  value |-> Child(ptr, "value", follows),
                  strong |-> Child(ptr, "strong", follows),
                  weak |-> Child(ptr, "weak", follows),
                  strong_count |-> 0, weak_count |-> 0]
        IN prov' = StdRc_update(p, mem)
    /\ fresh' = TRUE
    /\ result' = NoResult
    /\ UNCHANGED <<mem, gdb, classifyVars>>

StdRc_Update ==
    /\ result = NoResult
    /\ prov.class = RcClass
    /\ prov' = StdRc_update(prov, mem)
    /\ fresh' = TRUE
    /\ result' = NoResult
    /\ UNCHANGED <<mem, gdb, classifyVars>>

StdRc_NumChildren ==
    /\ result = NoResult
    /\ prov.class = RcClass
    /\ result' = Result("num_children", 0, StdRc_num_children)
    /\ UNCHANGED <<mem, prov, gdb, fresh, classifyVars>>

StdRc_GetChildAtIndex ==
    /\ result = NoResult
    /\ prov.class = RcClass
    /\ \E index \in Indices :
        result' = Result("get_child_at_index", index, StdRc_get_child_at_index(prov, mem, index))
    /\ UNCHANGED <<mem, prov, gdb, fresh, classifyVars>>

StdRc_GetChildIndex ==
    /\ result = NoResult
    /\ prov.class = RcClass
    /\ \E name \in ChildNames :
        result' = Result("get_child_index", name, StdRc_get_child_index(name))
    /\ UNCHANGED <<mem, prov, gdb, fresh, classifyVars>>

\* a Python str returned by a summary provider
StrResult(text) == [type |-> "str", str |-> text]

\* valobj.GetChildMemberWithName(name) of the value the provider stands for:
\* the host asks the provider for the index of the name and for that child
StdRc_GetChildMemberWithName(p, m, name) ==
    StdRc_get_child_at_index(p, m, StdRc_get_child_index(name).int)

\* the mutant that prints the weak count for both
StdRcSummaryProvider_WeakTwice(p, m) ==
    LET weak == StdRc_GetChildMemberWithName(p, m, <<"w", "e", "a", "k">>).uint
    IN StrResult(<<"s", "t", "r", "o", "n", "g", "=">> \o str_of_int(weak)
                 \o <<",", " ", "w", "e", "a", "k", "=">> \o str_of_int(weak))

\* StdRcSummaryProvider(valobj, dict): "strong={}, weak={}".format(strong, weak)
StdRcSummaryProvider(p, m) ==
    LET strong == StdRc_GetChildMemberWithName(p, m, <<"s", "t", "r", "o", "n", "g">>).uint
        weak == StdRc_GetChildMemberWithName(p, m, <<"w", "e", "a", "k">>).uint
    IN StrResult(<<"s", "t", "r", "o", "n", "g", "=">> \o str_of_int(strong)
                 \o <<",", " ", "w", "e", "a", "k", "=">> \o str_of_int(weak))

StdRc_Summary ==
    /\ result = NoResult
    /\ prov.class = RcClass
    /\ result' = Result("summary", 0, StdRcSummaryProvider(prov, mem))
    /\ UNCHANGED <<mem, prov, gdb, fresh, classifyVars>>

\* the inferior runs: the Rc is assigned another Rc (ptr moves to another
\* block), or a clone, drop, downgrade changes a counter of a block
MutateRc ==
    /\ result = NoResult
    /\ mem.kind = "Rc"
    /\ \/ \E b \in BoxAddrs \ {mem.ptr} : mem' = [mem EXCEPT !.ptr = b]
       \/ \E b \in BoxAddrs, n \in 1..MaxCount :
            /\ n # mem.boxes[b].strong
            /\ mem' = [mem EXCEPT !.boxes[b].strong = n]
       \/ \E b \in BoxAddrs, n \in 1..MaxWeak :
            /\ n # mem.boxes[b].weak
            /\ mem' = [mem EXCEPT !.boxes[b].weak = n]
    /\ fresh' = FALSE
    /\ result' = NoResult
    /\ UNCHANGED <<prov, gdb, classifyVars>>

(***************************************************************************)
(* providers.py children_of_node and StdBTreeMapSyntheticProvider          *)
(***************************************************************************)
BTreeClass == "StdBTreeMapSyntheticProvider"

\* the interpreters the host may embed
PythonVersions == {2, 3}

\* where an array slot of a node is: the node (the edge numbers from the root
\* down to it), the array and the byte offset in it
Slot(at, array, offset) == [node |-> at, array |-> array, offset |-> offset]

\* "key[%s]" % i, "val[%s]" % i
KeyName(i) == <<"k", "e", "y">> \o BracketName(i)
ValName(i) == <<"v", "a", "l">> \o BracketName(i)

\* the mutant that yields pair i before it recurses into edge i
RECURSIVE children_of_node_PairFirst(_, _, _, _, _)
RECURSIVE children_of_node_from_PairFirst(_, _, _, _, _, _)
children_of_node_PairFirst(m, node, at, height, want_values) ==
    children_of_node_from_PairFirst(m, node, at, height, want_values, 0)

children_of_node_from_PairFirst(m, node, at, height, want_values, i) ==
    LET length == node.len
        key == SBValue(KeyName(i), Slot(at, "keys", i * m.key_size))
        val == SBValue(ValName(i), Slot(at, "vals", i * m.val_size))
    IN  IF i >= length + 1 THEN <<>>
        ELSE (IF i < length
              THEN (IF want_values THEN << <<key, val>> >> ELSE <<key>>)
              ELSE <<>>)
             \o (IF height > 0
                 THEN children_of_node_PairFirst(m, node.edges[i + 1], Append(at, i),
                                                 height - 1, want_values)
                 ELSE <<>>)
             \o children_of_node_from_PairFirst(m, node, at, height, want_values, i + 1)

\* children_of_node(node, height, want_values) for the node reached by the
\* edges `at`: the list of what the generator yields
RECURSIVE children_of_node(_, _, _, _, _)
RECURSIVE children_of_node_from(_, _, _, _, _, _)
children_of_node(m, node, at, height, want_values) ==
    children_of_node_from(m, node, at, height, want_values, 0)

\* the iterations i, i + 1, ..., length of the loop over range(length + 1)
children_of_node_from(m, node, at, height, want_values, i) ==
    LET length == node.len
        key == SBValue(KeyName(i), Slot(at, "keys", i * m.key_size))
        val == SBValue(ValName(i), Slot(at, "vals", i * m.val_size))
    IN  IF i >= length + 1 THEN <<>>
        ELSE (IF height > 0
              THEN children_of_node(m, node.edges[i + 1], Append(at, i),
                                    height - 1, want_values)
              ELSE <<>>)
             \o (IF i < length
                 THEN (IF want_values THEN << <<key, val>> >> ELSE <<key>>)
                 ELSE <<>>)
             \o children_of_node_from(m, node, at, height, want_values, i + 1)

StdBTreeMap_update(p, m) ==
    LET children == children_of_node(m, m.root, <<>>, m.height, TRUE)
        keys == [j \in 1..Len(children) |-> children[j][1]]
        values == [j \in 1..Len(children) |-> children[j][2]]
    IN [p EXCEPT !.keys = keys, !.values = values, !.length = Len(values)]

StdBTreeMap_num_children(p) == IntResult(p.length)

\* index < self.length compares a str with an int: Python 2 orders every int
\* before every str, Python 3 raises TypeError
StdBTreeMap_get_child_index(p, name, python) ==
    LET index == rstrip(lstrip(name, "["), "]")
    IN IF isdigit(index)
       THEN (IF python = 2 THEN IntResult(-1) ELSE Raised("TypeError"))
       ELSE IntResult(-1)

\* self.keys[index] for an index >= 0
StdBTreeMap_get_child_at_index(p, index) ==
    IF index < Len(p.keys) THEN p.keys[index + 1] ELSE Raised("IndexError")

\* StdBTreeMapSyntheticProvider.__init__: keys = [], values = [], length = 0,
\* then self.update()
StdBTreeMap_init ==
    /\ result = NoResult
    /\ mem.kind = "BTreeMap"
    /\ prov = Idle
    /\ prov' = StdBTreeMap_update(
                    [class |-> BTreeClass, keys |-> <<>>, values |-> <<>>, length |-> 0],
                    mem)
    /\ fresh' = TRUE
    /\ result' = NoResult
    /\ UNCHANGED <<mem, gdb, classifyVars>>

StdBTreeMap_Update ==
    /\ result = NoResult
    /\ prov.class = BTreeClass
    /\ prov' = StdBTreeMap_update(prov, mem)
    /\ fresh' = TRUE
    /\ result' = NoResult
    /\ UNCHANGED <<mem, gdb, classifyVars>>

\* The host calls update() when the inferior has run, before it asks for the
\* count or a child again: the queries are made of a refreshed provider.
StdBTreeMap_NumChildren ==
    /\ result = NoResult
    /\ prov.class = BTreeClass
    /\ fresh
    /\ result' = Result("num_children", 0, StdBTreeMap_num_children(prov))
    /\ UNCHANGED <<mem, prov, gdb, fresh, classifyVars>>

StdBTreeMap_GetChildAtIndex ==
    /\ result = NoResult
    /\ prov.class = BTreeClass
    /\ fresh
    /\ \E index \in Indices :
        result' = Result("get_child_at_index", index,
                         StdBTreeMap_get_child_at_index(prov, index))
    /\ UNCHANGED <<mem, prov, gdb, fresh, classifyVars>>

StdBTreeMap_GetChildIndex ==
    /\ result = NoResult
    /\ prov.class = BTreeClass
    /\ fresh
    /\ \E name \in ChildNames, python \in PythonVersions :
        result' = Result("get_child_index", name,
                         StdBTreeMap_get_child_index(prov, name, python))
    /\ UNCHANGED <<mem, prov, gdb, fresh, classifyVars>>

\* the keys a subtree holds
RECURSIVE KeysUnder(_)
KeysUnder(node) ==
    {node.keys[i] : i \in 1..node.len}
        \cup UNION {KeysUnder(node.edges[i]) : i \in 1..Len(node.edges)}

\* the edge of a node under which key k belongs: the number of keys below k
EdgeFor(node, k) == Cardinality({j \in 1..node.len : node.keys[j] < k})

\* the subtrees after insert(k, ValueOf(k)) where the leaf has room for k
RECURSIVE Inserted(_, _, _)
Inserted(node, height, k) ==
    LET i == EdgeFor(node, k)
    IN IF k \in {node.keys[j] : j \in 1..node.len} THEN {}
       ELSE IF height = 0
       THEN (IF node.len < MaxNodeLen
             THEN {LeafNode(SubSeq(node.keys, 1, i) \o <<k>>
                            \o SubSeq(node.keys, i + 1, node.len))}
             ELSE {})
       ELSE {InternalNode(node.keys, [node.edges EXCEPT ![i + 1] = e])
                : e \in Inserted(node.edges[i + 1], height - 1, k)}

\* the subtrees after remove(k) where the leaf keeps a key, or is the root
RECURSIVE Removed(_, _, _, _)
Removed(node, height, k, is_root) ==
    LET i == EdgeFor(node, k)
    IN IF height = 0
       THEN (IF k \in {node.keys[j] : j \in 1..node.len} /\ (node.len > 1 \/ is_root)
             THEN {LeafNode(SubSeq(node.keys, 1, i) \o SubSeq(node.keys, i + 2, node.len))}
             ELSE {})
       ELSE IF k \in {node.keys[j] : j \in 1..node.len} THEN {}
       ELSE {InternalNode(node.keys, [node.edges EXCEPT ![i + 1] = e])
                : e \in Removed(node.edges[i + 1], height - 1, k, FALSE)}

\* the inferior runs: an entry is inserted into a leaf or removed from one, or
\* the map is cleared
MutateBTree ==
    /\ result = NoResult
    /\ mem.kind = "BTreeMap"
    /\ \/ \E k \in 1..MaxKey :
            \E root \in Inserted(mem.root, mem.height, k)
                        \cup Removed(mem.root, mem.height, k, TRUE) :
                mem' = [mem EXCEPT !.root = root]
       \/ /\ mem.root.len > 0
          /\ mem' = [mem EXCEPT !.root = LeafNode(<<>>), !.height = 0]
    /\ fresh' = FALSE
    /\ result' = NoResult
    /\ UNCHANGED <<prov, gdb, classifyVars>>

\* the host has its answer; the next call of the interface may follow
HostTakesResult ==
    /\ result # NoResult
    /\ result' = NoResult
    /\ UNCHANGED <<mem, prov, gdb, fresh, classifyVars>>

NextProvider ==
    \/ StdVecSyntheticProvider_init
    \/ StdVecProvider_init
    \/ StdVec_Update
    \/ StdVec_NumChildren
    \/ StdVec_GetChildAtIndex
    \/ StdVec_GetChildIndex
    \/ MutateVec
    \/ StdVecDeque_init
    \/ StdVecDeque_Update
    \/ StdVecDeque_NumChildren
    \/ StdVecDeque_GetChildAtIndex
    \/ StdVecDeque_GetChildIndex
    \/ GdbStdVecDequeProvider
    \/ MutateDeque
    \/ StdRc_init
    \/ StdRc_Update
    \/ StdRc_NumChildren
    \/ StdRc_GetChildAtIndex
    \/ StdRc_GetChildIndex
    \/ StdRc_Summary
    \/ MutateRc
    \/ StdBTreeMap_init
    \/ StdBTreeMap_Update
    \/ StdBTreeMap_NumChildren
    \/ StdBTreeMap_GetChildAtIndex
    \/ StdBTreeMap_GetChildIndex
    \/ MutateBTree
    \/ HostTakesResult

SpecProvider == InitProvider /\ [][NextProvider]_vars

(***************************************************************************)
(* lookup.py (JetBrains): its own RustType, patterns and classifier        *)
(***************************************************************************)
JB_OTHER == 0
JB_STD_VEC == 1
JB_STD_STRING == 2
JB_STD_STR == 3
JB_STD_RC == 4
JB_STD_HASHMAP == 5

\* ^(root([a-zA-Z]+::)+)Head<.+>$ matched against name, for a root such as
\* alloc:: and a head such as Rc
RootPathGeneric(name, root, head) ==
    \E p \in 0..Len(name) :
        LET r == From(name, p + 1)
            h == Len(head) + 1
        IN
        /\ StartsWith(r, head \o <<"<">>)
        /\ StartsWith(SubSeq(name, 1, p), root)
        /\ PathSegments(From(SubSeq(name, 1, p), Len(root) + 1))
        /\ \E q \in (h + 1)..(Len(r) - 1) :
              /\ \A k \in (h + 1)..q : r[k] # "\n"
              /\ r[q + 1] = ">"
              /\ EndAnchor(r, q + 2)

\* r"^(alloc::([a-zA-Z]+::)+)Rc<.+>$"
STD_RC_REGEX(name) ==
    RootPathGeneric(name, <<"a", "l", "l", "o", "c", ":", ":">>, <<"R", "c">>)

\* r"^(std::collections::([a-zA-Z]+::)+)HashMap<.+>$"
STD_HASHMAP_REGEX(name) ==
    RootPathGeneric(name,
                    <<"s", "t", "d", ":", ":", "c", "o", "l", "l", "e", "c", "t", "i", "o", "n",
                      "s", ":", ":">>,
                    <<"H", "a", "s", "h", "M", "a", "p">>)

\* lookup.classify_rust_type(type)
jb_classify_rust_type(type) ==
    IF type.kind = "struct" THEN
        IF STD_VEC_REGEX(type.name) THEN JB_STD_VEC
        ELSE IF STD_STRING_REGEX(type.name) THEN JB_STD_STRING
        ELSE IF STD_STR_REGEX(type.name) THEN JB_STD_STR
        ELSE IF STD_RC_REGEX(type.name) THEN JB_STD_RC
        ELSE IF STD_HASHMAP_REGEX(type.name) THEN JB_STD_HASHMAP
        ELSE JB_OTHER
    ELSE JB_OTHER

(***************************************************************************)
(* providers.py: the summary providers                                     *)
(***************************************************************************)
\* the texts a string of the inferior may hold
InferiorTexts == {<<>>, <<"a">>, <<"a", "b">>}

\* '"%s"' % text
Quoted(text) == <<"\"">> \o text \o <<"\"">>

\* SizeSummaryProvider: 'size=' + str(valobj.GetNumChildren()), the count
\* being that of the Vec's children
SizeSummaryProvider ==
    {StrResult(<<"s", "i", "z", "e", "=">> \o str_of_int(n)) : n \in 0..MaxLen}

\* StdStringSummaryProvider: assert valobj.GetNumChildren() == 1, then the
\* characters of the child, quoted
StdStringSummaryProvider(type) ==
    IF HostNumChildren(type) # 1 THEN {Raised(AssertionError)}
    ELSE {StrResult(Quoted(text)) : text \in InferiorTexts}

\* StdStrSummaryProvider: assert valobj.GetNumChildren() == 2, then the bytes
\* read from the inferior, quoted, or the text of the read error
StdStrSummaryProvider(type) ==
    IF HostNumChildren(type) # 2 THEN {Raised(AssertionError)}
    ELSE {StrResult(Quoted(text)) : text \in InferiorTexts}
         \cup {StrResult(<<"<", "e", "r", "r", "o", "r", ":", " ", "?", ">">>)}

\* StdRcSummaryProvider over the Rc provider with the counts it has read
RcSummaries ==
    {StdRcSummaryProvider([class |-> RcClass, strong_count |-> strong, weak_count |-> weak],
                          Idle)
        : strong \in 1..MaxCount, weak \in 1..MaxWeak}

(***************************************************************************)
(* lldb_lookup.summary_lookup, lookup.py and gdb_lookup.py                 *)
(***************************************************************************)
\* a provider object returned by a lookup
ProviderResult(class, is_variant) ==
    [type |-> "provider", provider |-> Provider(class, is_variant)]

\* what lldb_lookup.summary_lookup may return for a value of the tag and type
summary_lookup(tag, type) ==
    IF tag = AssertionError THEN {Raised(AssertionError)}
    ELSE IF tag = STD_VEC THEN SizeSummaryProvider
    ELSE IF tag = STD_STRING THEN StdStringSummaryProvider(type)
    ELSE IF tag = STD_STR THEN StdStrSummaryProvider(type)
    ELSE {StrResult(<<>>)}

\* the mutant that returns None where no formatter applies
jb_summary_lookup_None(tag, type) ==
    IF tag = JB_STD_VEC THEN SizeSummaryProvider
    ELSE IF tag = JB_STD_STRING THEN StdStringSummaryProvider(type)
    ELSE IF tag = JB_STD_STR THEN StdStrSummaryProvider(type)
    ELSE IF tag = JB_STD_RC THEN RcSummaries
    ELSE {NoneResult}

\* what lookup.summary_lookup (JetBrains) may return
jb_summary_lookup(tag, type) ==
    IF tag = JB_STD_VEC THEN SizeSummaryProvider
    ELSE IF tag = JB_STD_STRING THEN StdStringSummaryProvider(type)
    ELSE IF tag = JB_STD_STR THEN StdStrSummaryProvider(type)
    ELSE IF tag = JB_STD_RC THEN RcSummaries
    ELSE {StrResult(<<>>)}

\* the provider classes that "from providers import *" brings into lookup.py
ProvidersClasses ==
    {"DefaultSynthteticProvider", "EmptySyntheticProvider", "StructSyntheticProvider",
     "TupleSyntheticProvider", "StdVecSyntheticProvider", "StdVecDequeSyntheticProvider",
     "StdRcSyntheticProvider", "StdCellSyntheticProvider", "StdRefSyntheticProvider",
     "StdBTreeMapSyntheticProvider"}

\* Class(valobj, dict) for a name looked up in lookup.py's globals
Construct(class) ==
    IF class \in ProvidersClasses THEN ProviderResult(class, FALSE) ELSE Raised("NameError")

\* lookup.synthetic_lookup (JetBrains)
jb_synthetic_lookup(tag) ==
    IF tag = JB_STD_VEC THEN Construct("StdVecSyntheticProvider")
    ELSE IF tag = JB_STD_RC THEN Construct("StdRcSyntheticProvider")
    ELSE IF tag = JB_STD_HASHMAP THEN Construct("StdHashMapSyntheticProvider")
    ELSE NoneResult

\* the attributes class RustType of rust_types.py defines
RustTypeAttributes ==
    {"OTHER", "STRUCT", "TUPLE", "CSTYLE_VARIANT", "TUPLE_VARIANT", "STRUCT_VARIANT", "EMPTY",
     "SINGLETON_ENUM", "REGULAR_ENUM", "COMPRESSED_ENUM", "REGULAR_UNION",
     "STD_VEC", "STD_STRING", "STD_STR"}

\* gdb_lookup.lookup: the comparisons in their order; the last one reads
\* RustType.STD_VEC_DEQUE
gdb_lookup(tag) ==
    IF tag = AssertionError THEN Raised(AssertionError)
    ELSE IF tag = STRUCT THEN ProviderResult("StructProvider", FALSE)
    ELSE IF tag = STRUCT_VARIANT THEN ProviderResult("StructProvider", TRUE)
    ELSE IF tag = TUPLE THEN ProviderResult("TupleProvider", FALSE)
    ELSE IF tag = TUPLE_VARIANT THEN ProviderResult("TupleProvider", TRUE)
    ELSE IF tag = STD_STRING THEN ProviderResult("StdStringProvider", FALSE)
    ELSE IF tag = STD_STR THEN ProviderResult("StdStrProvider", FALSE)
    ELSE IF tag = STD_VEC THEN ProviderResult("StdVecProvider", FALSE)
    ELSE IF "STD_VEC_DEQUE" \notin RustTypeAttributes THEN Raised("AttributeError")
    ELSE IF tag = "StdVecDeque" THEN ProviderResult("StdVecDequeProvider", FALSE)
    ELSE NoneResult

\* the host calls lldb_lookup.summary_lookup(valobj, dict)
SummaryLookup ==
    /\ pc = "summary_lookup"
    /\ LET tag == classify_rust_type(valType) IN
        \E val \in summary_lookup(tag, valType) :
            result' = Result("summary_lookup", tag, val)
    /\ pc' = "done"
    /\ UNCHANGED <<valType, rust_type, provider, depth, mem, prov, gdb, fresh>>

\* the host calls lookup.summary_lookup(valobj, dict)
JbSummaryLookup ==
    /\ pc = "jb_summary_lookup"
    /\ LET tag == jb_classify_rust_type(valType) IN
        \E val \in jb_summary_lookup(tag, valType) :
            result' = Result("jb_summary_lookup", tag, val)
    /\ pc' = "done"
    /\ UNCHANGED <<valType, rust_type, provider, depth, mem, prov, gdb, fresh>>

\* the host calls lookup.synthetic_lookup(valobj, dict)
JbSyntheticLookup ==
    /\ pc = "jb_synthetic_lookup"
    /\ LET tag == jb_classify_rust_type(valType) IN
        result' = Result("jb_synthetic_lookup", tag, jb_synthetic_lookup(tag))
    /\ pc' = "done"
    /\ UNCHANGED <<valType, rust_type, provider, depth, mem, prov, gdb, fresh>>

\* gdb calls gdb_lookup.lookup(valobj)
GdbLookup ==
    /\ pc = "gdb_lookup"
    /\ LET tag == classify_rust_type(valType) IN
        result' = Result("gdb_lookup", tag, gdb_lookup(tag))
    /\ pc' = "done"
    /\ UNCHANGED <<valType, rust_type, provider, depth, mem, prov, gdb, fresh>>

(***************************************************************************)
(* The lookups over a value and the queries of the provider they return    *)
(***************************************************************************)
\* type names of the standard library and of the user
LookupTypeNames ==
    {<<"a", "l", "l", "o", "c", ":", ":", "v", "e", "c", ":", ":", "V", "e", "c", "<", "T", ">">>,
     <<"a", "l", "l", "o", "c", ":", ":", "s", "t", "r", "i", "n", "g", ":", ":",
       "S", "t", "r", "i", "n", "g">>,
     <<"&", "s", "t", "r">>,
     <<"a", "l", "l", "o", "c", ":", ":", "r", "c", ":", ":", "R", "c", "<", "T", ">">>,
     <<"s", "t", "d", ":", ":", "c", "o", "l", "l", "e", "c", "t", "i", "o", "n", "s", ":", ":",
       "h", "a", "s", "h", ":", ":", "m", "a", "p", ":", ":",
       "H", "a", "s", "h", "M", "a", "p", "<", "K", ",", " ", "V", ">">>,
     <<"F", "o", "o">>}

LookupTypes ==
    {Type("struct", n, f) : n \in LookupTypeNames, f \in SeqsUpTo(StructFieldNames, MaxFields)}
    \cup {Type("union", n, f) : n \in LookupTypeNames, f \in SeqsUpTo(UnionFieldNames, MaxFields)}
    \cup {Type("other", n, <<>>) : n \in LookupTypeNames}

\* A value of the inferior as the host shows it: its type, its children in
\* their order and, for a scalar, its unsigned value.
Value(type, children, uint) == [type |-> type, children |-> children, uint |-> uint]

Scalar(n) == Value(Type("other", <<"u", "8">>, <<>>), <<>>, n)

\* a struct whose first field holds d: the variants of an enum lie over one
\* another, and each starts with the discriminant
StructValue(type, d) ==
    Value(type, [i \in 1..Len(type.fields) |-> Scalar(IF i = 1 THEN d ELSE 0)], 0)

\* an enum of one variant around v
RECURSIVE Wrapped(_, _)
Wrapped(v, k) ==
    IF k = 0 THEN v
    ELSE Value(Type("union", VariantName, <<None>>), <<Wrapped(v, k - 1)>>, 0)

\* the invalid SBValue, which GetChildAtIndex returns past the last child
InvalidSBValue == Value(InvalidType, <<>>, 0)

\* the variants an enum may have, all with the discriminant d in their first
\* field: structs, and enums nested up to MaxDepth - 1 deep
VariantPool(d) ==
    <<StructValue(Type("struct", VariantName, <<ENUM_DISR_FIELD_NAME>>), d),
      StructValue(Type("struct", VariantName, <<ENUM_DISR_FIELD_NAME, <<"_", "_", "0">>>>), d),
      StructValue(Type("struct", VariantName, <<ENUM_DISR_FIELD_NAME, <<"V", "e", "c">>>>), d)>>
    \o [k \in 1..(MaxDepth - 1) |->
            Wrapped(StructValue(Type("struct", VariantName, <<<<"_", "_", "0">>>>), d), k)]

\* the values of a type: a union's children are its variants, n of the pool
\* from some position on
ValuesOf(type) ==
    IF type.kind = "union"
    THEN {Value(type,
                [i \in 1..Len(type.fields) |->
                    VariantPool(d)[((i + r) % Len(VariantPool(d))) + 1]],
                0)
            : d \in 0..MaxDiscriminant, r \in 1..(MaxDepth + 2)}
    ELSE {StructValue(type, 0)}

\* SBValue.GetChildAtIndex(index) and GetValueAsUnsigned()
GetChildAtIndex(v, index) ==
    IF index < Len(v.children) THEN v.children[index + 1] ELSE InvalidSBValue
GetValueAsUnsigned(v) == v.uint

\* the mutant that always goes into variant 0
RedispatchChild_First(v, tag) == GetChildAtIndex(v, 0)

\* the value synthetic_lookup calls itself with for an enum of the tag
RedispatchChild(v, tag) ==
    IF tag = REGULAR_ENUM
    THEN LET discriminant ==
                GetValueAsUnsigned(GetChildAtIndex(GetChildAtIndex(v, 0), 0))
         IN GetChildAtIndex(v, discriminant)
    ELSE GetChildAtIndex(v, 0)

\* return synthetic_lookup(valobj.GetChildAtIndex(discriminant), dict) and
\* return synthetic_lookup(valobj.GetChildAtIndex(0), dict), over the value
\* mem.value of the inferior
SyntheticLookupRedispatchValue ==
    /\ pc = "classified"
    /\ rust_type \in {REGULAR_ENUM, SINGLETON_ENUM}
    /\ LET child == RedispatchChild(mem.value, rust_type) IN
        /\ valType' = child.type
        /\ mem' = [mem EXCEPT !.value = child]
    /\ pc' = "lookup"
    /\ rust_type' = "unset"
    /\ depth' = depth + 1
    /\ UNCHANGED <<provider, prov, gdb, result, fresh>>

\* the entry points the host calls with a value
EntryPoints ==
    {"lookup", "summary_lookup", "jb_summary_lookup", "jb_synthetic_lookup", "gdb_lookup"}

\* the host calls an entry point with a value: mem holds the value displayed
\* (root) and the value the lookup is at (value)
InitLookup ==
    /\ valType \in LookupTypes
    /\ pc \in EntryPoints
    /\ rust_type = "unset"
    /\ provider = NoProvider
    /\ depth = 0
    /\ \E v \in ValuesOf(valType) : mem = [kind |-> "Value", root |-> v, value |-> v]
    /\ prov = Idle
    /\ gdb = Idle
    /\ result = NoResult
    /\ fresh = FALSE

NextLookup ==
    \/ ClassifyRustType
    \/ SyntheticLookupReturn
    \/ SyntheticLookupRedispatchValue
    \/ QueryNumChildren
    \/ QueryHasChildren
    \/ QueryGetChildIndex
    \/ QueryGetChildAtIndex
    \/ SummaryLookup
    \/ JbSummaryLookup
    \/ JbSyntheticLookup
    \/ GdbLookup

SpecLookup == InitLookup /\ [][NextLookup]_vars

\* synthetic_lookup is a call the interpreter runs to its end
SpecLookupFair ==
    /\ SpecLookup
    /\ WF_vars(ClassifyRustType)
    /\ WF_vars(SyntheticLookupReturn)
    /\ WF_vars(SyntheticLookupRedispatchValue)

(***************************************************************************)
(* Properties of the providers                                             *)
(***************************************************************************)
\* the provider's attributes were read by update() from the memory as it is
Refreshed(class) == prov.class = class /\ fresh

\* C7: for a Vec provider refreshed over a vector of length L,
\* num_children() = L, get_child_at_index(i) for 0 <= i < L is the element at
\* base + i*S, and get_child_at_index(i) for i >= L fails with an out-of-range
\* result instead of a value.
C7_VecChildren ==
    (prov.class \in VecClasses /\ fresh)
        => /\ result.op = "num_children" => result.val = IntResult(mem.len)
           /\ (result.op = "get_child_at_index" /\ result.arg < mem.len)
                => result.val = SBValue(BracketName(result.arg),
                                        mem.ptr + result.arg * mem.elem_size)
           /\ (result.op = "get_child_at_index" /\ result.arg >= mem.len)
                => result.val.type # "SBValue"

\* the part of C7 about the count and the indices below the length
C7_VecChildrenBelowLength ==
    (prov.class \in VecClasses /\ fresh)
        => /\ result.op = "num_children" => result.val = IntResult(mem.len)
           /\ (result.op = "get_child_at_index" /\ result.arg < mem.len)
                => result.val = SBValue(BracketName(result.arg),
                                        mem.ptr + result.arg * mem.elem_size)

\* H - T when H >= T and C + H - T otherwise
LogicalSize(H, T, C) == IF H >= T THEN H - T ELSE C + H - T

\* the address of physical slot (T + i) mod C
SlotAddress(m, i) == m.ptr + ((m.tail + i) % m.cap) * m.elem_size

\* C8: the deque provider's size is H - T when H >= T and C + H - T
\* otherwise, get_child_at_index(i) for 0 <= i < size addresses physical slot
\* (T + i) mod C (capacity 4, tail 3, head 1: size 2, child 0 at slot 3 and
\* child 1 at slot 0), and the gdb provider computes the same size and slots.
C8_DequeSizeAndSlots ==
    /\ Refreshed(DequeClass)
        => LET size == LogicalSize(mem.head, mem.tail, mem.cap) IN
           /\ prov.size = size
           /\ result.op = "num_children" => result.val = IntResult(size)
           /\ (result.op = "get_child_at_index" /\ result.arg < size)
                => result.val = SBValue(BracketName(result.arg),
                                        SlotAddress(mem, result.arg))
           /\ (mem.cap = 4 /\ mem.tail = 3 /\ mem.head = 1)
                => /\ prov.size = 2
                   /\ (result.op = "get_child_at_index" /\ result.arg = 0)
                        => result.val.address = mem.ptr + 3 * mem.elem_size
                   /\ (result.op = "get_child_at_index" /\ result.arg = 1)
                        => result.val.address = mem.ptr
           /\ gdb # Idle
                => /\ gdb.provider.size = prov.size
                   /\ \A i \in 0..(prov.size - 1) :
                        gdb.children[i + 1].address
                            = StdVecDeque_get_child_at_index(prov, mem, i).address
    /\ gdb # Idle
        => /\ gdb.provider.size = LogicalSize(mem.head, mem.tail, mem.cap)
           /\ Len(gdb.children) = gdb.provider.size
           /\ \A i \in 0..(gdb.provider.size - 1) :
                gdb.children[i + 1].address = SlotAddress(mem, i)

C8_Witness ==
    /\ Refreshed(DequeClass)
    /\ mem.cap = 4 /\ mem.tail = 3 /\ mem.head = 1
    /\ gdb # Idle
    /\ Len(gdb.children) = 2
    /\ result.op = "get_child_at_index"
    /\ result.arg = 1
    /\ result.val.address = mem.ptr

\* the index i a name "[i]" stands for, numeric or not
NameIndex(name) == rstrip(lstrip(name, "["), "]")

\* C9: the deque provider's get_child_index(name) returns i for a name "[i]"
\* exactly when i is numeric and T <= i and (T + i) mod C < H, and -1 for
\* every other name.
C9_DequeNameLookup ==
    (prov.class = DequeClass /\ result.op = "get_child_index")
        => LET index == NameIndex(result.arg)
               i == int_of_str(index)
           IN result.val =
                IF isdigit(index) /\ prov.tail <= i /\ (prov.tail + i) % prov.cap < prov.head
                THEN IntResult(i)
                ELSE IntResult(-1)

\* the part of C9 about the names that are not numeric
C9_DequeNonNumericName ==
    (prov.class = DequeClass /\ result.op = "get_child_index"
        /\ ~isdigit(NameIndex(result.arg)))
        => result.val = IntResult(-1)

\* what each query returns when it is answered from the memory as it is
AnswerFromMemory(op, arg) ==
    IF mem.kind = "Vec" THEN
        IF op = "num_children" THEN IntResult(mem.len)
        ELSE SBValue(BracketName(arg), mem.ptr + arg * mem.elem_size)
    ELSE IF mem.kind = "Deque" THEN
        IF op = "num_children"
        THEN IntResult(LogicalSize(mem.head, mem.tail, mem.cap))
        ELSE SBValue(BracketName(arg), SlotAddress(mem, arg))
    ELSE IF mem.kind = "BTreeMap" THEN
        IF op = "num_children" THEN IntResult(Cardinality(KeysUnder(mem.root)))
        ELSE StdBTreeMap_get_child_at_index(
                 StdBTreeMap_update([keys |-> <<>>, values |-> <<>>, length |-> 0], mem), arg)
    ELSE
        IF op = "num_children" THEN IntResult(1)
        ELSE IF arg = 0 THEN SBValue(<<"v", "a", "l", "u", "e">>, Handle(mem.ptr, "value"))
        ELSE IF arg = 1
            THEN from_uint(<<"s", "t", "r", "o", "n", "g">>, mem.boxes[mem.ptr].strong)
        ELSE IF arg = 2
            THEN from_uint(<<"w", "e", "a", "k">>, mem.boxes[mem.ptr].weak)
        ELSE NoneResult

\* C10: after memory mutations followed by update(), every count and child
\* query of a provider is answered from the memory as it is at that update,
\* not from an address, handle or length cached before it.
C10_AnsweredFromMemoryAtUpdate ==
    (fresh /\ result.op \in {"num_children", "get_child_at_index"})
        => result.val = AnswerFromMemory(result.op, result.arg)

\* the part of C10 about the Vec and deque providers
C10_VecDequeAnsweredFromMemory ==
    (fresh /\ mem.kind \in {"Vec", "Deque"}
        /\ result.op \in {"num_children", "get_child_at_index"})
        => result.val = AnswerFromMemory(result.op, result.arg)

\* the node the edges `at` lead to from a root
RECURSIVE NodeAt(_, _)
NodeAt(node, at) ==
    IF at = <<>> THEN node ELSE NodeAt(node.edges[Head(at) + 1], Tail(at))

\* what the memory holds at a slot of a keys or vals array
ReadSlot(m, slot) ==
    LET node == NodeAt(m.root, slot.node)
    IN IF slot.array = "keys" THEN node.keys[(slot.offset \div m.key_size) + 1]
       ELSE node.vals[(slot.offset \div m.val_size) + 1]

\* C11: children_of_node recurses into edge i before it yields pair i, so for
\* every well-formed B-tree the pairs come out once each in ascending key
\* order; after update() num_children() is the number of pairs of the map, and
\* keys[i] and values[i] are the key and the value of the same entry.
C11_BTreeInOrder ==
    Refreshed(BTreeClass)
        => LET n == Cardinality(KeysUnder(mem.root))
               key(j) == ReadSlot(mem, prov.keys[j].address)
           IN /\ prov.length = n
              /\ Len(prov.keys) = n
              /\ Len(prov.values) = n
              /\ {key(j) : j \in 1..n} = KeysUnder(mem.root)
              /\ \A j \in 1..(n - 1) : key(j) < key(j + 1)
              /\ \A j, k \in 1..n :
                    prov.keys[j].address = prov.keys[k].address => j = k
              /\ \A j \in 1..n :
                    /\ prov.keys[j].address.array = "keys"
                    /\ prov.values[j].address.array = "vals"
                    /\ prov.values[j].address.node = prov.keys[j].address.node
                    /\ prov.values[j].address.offset \div mem.val_size
                        = prov.keys[j].address.offset \div mem.key_size
                    /\ ReadSlot(mem, prov.values[j].address) = ValueOf(key(j))
              /\ result.op = "num_children" => result.val = IntResult(n)

C11_Witness ==
    /\ Refreshed(BTreeClass)
    /\ mem.height = 1
    /\ mem.root.len = 2
    /\ \A i \in 1..3 : mem.root.edges[i].len >= 1
    /\ Len(prov.keys) = 5
    /\ result.op = "num_children"
    /\ result.val = IntResult(5)

\* text holds sub as a substring
Contains(text, sub) ==
    \E i \in 0..(Len(text) - Len(sub)) : SubSeq(text, i + 1, i + Len(sub)) = sub

\* C12: the Rc provider always has the payload as child "value" at index 0 and
\* num_children() >= 1, and the summary text holds the strong and the weak
\* count (strong 3 and weak 1 give a text holding 3 and 1), which are the
\* counts update() read last.
C12_RcValueAndSummary ==
    prov.class = RcClass
        => /\ result.op = "num_children" => result.val.int >= 1
           /\ (result.op = "get_child_index" /\ result.arg = <<"v", "a", "l", "u", "e">>)
                => result.val = IntResult(0)
           /\ (result.op = "get_child_at_index" /\ result.arg = 0)
                => /\ result.val.type = "SBValue"
                   /\ result.val.name = <<"v", "a", "l", "u", "e">>
           /\ result.op = "summary"
                => /\ result.val.type = "str"
                   /\ result.val.str
                        = <<"s", "t", "r", "o", "n", "g", "=">> \o str_of_int(prov.strong_count)
                          \o <<",", " ", "w", "e", "a", "k", "=">> \o str_of_int(prov.weak_count)
                   /\ Contains(result.val.str, str_of_int(prov.strong_count))
                   /\ Contains(result.val.str, str_of_int(prov.weak_count))
                   /\ (prov.strong_count = 3 /\ prov.weak_count = 1)
                        => /\ Contains(result.val.str, <<"3">>)
                           /\ Contains(result.val.str, <<"1">>)
           /\ fresh
                => /\ prov.strong_count = mem.boxes[Located(prov.strong, mem).box].strong
                   /\ prov.weak_count = mem.boxes[Located(prov.weak, mem).box].weak

C12_Witness ==
    /\ Refreshed(RcClass)
    /\ mem.boxes[mem.ptr].strong = 3
    /\ mem.boxes[mem.ptr].weak = 1
    /\ result.op = "summary"
    /\ result.val = StrResult(<<"s", "t", "r", "o", "n", "g", "=", "3",
                                ",", " ", "w", "e", "a", "k", "=", "1">>)

(***************************************************************************)
(* Properties of the lookups                                               *)
(***************************************************************************)
\* the tags synthetic_lookup has no provider of their own for
TagsWithoutProvider ==
    {OTHER_TYPE, REGULAR_UNION, COMPRESSED_ENUM, CSTYLE_VARIANT, STD_STRING, STD_STR}

\* C13: for every value whose tag has no dedicated synthetic provider,
\* synthetic_lookup returns the default provider, and the default provider's
\* num_children, get_child_index, get_child_at_index and has_children return
\* what the host's generic enumeration of the value returns.
C13_DefaultDefersToHost ==
    pc = "returned"
        => /\ rust_type \in TagsWithoutProvider
                <=> provider.class = "DefaultSynthteticProvider"
           /\ provider.class = "DefaultSynthteticProvider"
                => /\ result.op = "num_children"
                        => result.val = IntResult(Len(valType.fields))
                   /\ result.op = "has_children"
                        => result.val = BoolResult(valType.fields # <<>>)
                   /\ result.op = "get_child_index"
                        => result.val
                            = IF \E i \in 1..Len(valType.fields) : valType.fields[i] = result.arg
                              THEN IntResult((CHOOSE i \in 1..Len(valType.fields) :
                                                /\ valType.fields[i] = result.arg
                                                /\ \A j \in 1..(i - 1) :
                                                        valType.fields[j] # result.arg) - 1)
                              ELSE IntResult(UINT32_MAX)
                   /\ result.op = "get_child_at_index"
                        => result.val
                            = IF result.arg < Len(valType.fields)
                              THEN SBValue(valType.fields[result.arg + 1],
                                           [child |-> result.arg])
                              ELSE InvalidValue

C13_Witness ==
    /\ pc = "returned"
    /\ rust_type = STD_STRING
    /\ provider.class = "DefaultSynthteticProvider"
    /\ result.op = "get_child_index"
    /\ result.arg = <<"V", "e", "c">>
    /\ result.val = IntResult(1)


\* what an entry point may hand back to the host
Returned == {"provider", "str", "None"}

\* C14: every dispatch entry point returns a provider, a summary text or the
\* no-provider signal for every tag its classifier produces; none ends in an
\* exception.
C14_DispatchNeverFaults ==
    /\ result.op \in {"summary_lookup", "gdb_lookup"} =>
            \/ result.arg = AssertionError
            \/ result.val.type \in Returned
    /\ result.op \in {"jb_summary_lookup", "jb_synthetic_lookup"} =>
            result.val.type \in Returned

\* the tag of the value the host displays
RootTag == classify_rust_type(mem.root.type)

\* the discriminant of the value the host displays
RootDiscriminant ==
    GetValueAsUnsigned(GetChildAtIndex(GetChildAtIndex(mem.root, 0), 0))

\* the provider synthetic_lookup returns for a value, called as a whole: for
\* an enum that of the variant at the discriminant, or of variant 0
RECURSIVE ProviderOfValue(_)
ProviderOfValue(v) ==
    LET tag == classify_rust_type(v.type)
        discriminant == GetValueAsUnsigned(GetChildAtIndex(GetChildAtIndex(v, 0), 0))
    IN IF tag = REGULAR_ENUM THEN ProviderOfValue(GetChildAtIndex(v, discriminant))
       ELSE IF tag = SINGLETON_ENUM THEN ProviderOfValue(GetChildAtIndex(v, 0))
       ELSE synthetic_lookup_provider(tag)

\* the provider returned for an enum is the one returned for its variant
EnumProviderIsVariantProvider ==
    (pc = "returned" /\ mem.kind = "Value") =>
        /\ provider = ProviderOfValue(mem.root)
        /\ (RootTag = REGULAR_ENUM /\ RootDiscriminant < Len(mem.root.children)) =>
                /\ depth >= 1
                /\ provider = ProviderOfValue(mem.root.children[RootDiscriminant + 1])
        /\ RootTag = SINGLETON_ENUM =>
                /\ depth >= 1
                /\ provider = ProviderOfValue(mem.root.children[1])

\* C15: for a RegularEnum value synthetic_lookup returns the provider it
\* returns for the variant whose index is the discriminant read from the first
\* field of variant 0, for a SingletonEnum that of variant 0, and the
\* re-dispatch comes to an end for every value of finite nesting.
C15_EnumRedispatch ==
    /\ []EnumProviderIsVariantProvider
    /\ (pc = "lookup") ~> (pc \in {"returned", "raised"})

\* a RegularEnum whose variant 1 is itself an enum: two re-dispatches
C15_Witness ==
    /\ pc = "returned"
    /\ mem.kind = "Value"
    /\ RootTag = REGULAR_ENUM
    /\ RootDiscriminant = 1
    /\ depth = 2
    /\ provider = Provider("TupleSyntheticProvider", FALSE)

\* C16: get_child_index(name) returns an integer, an index or -1, for every
\* provider and name; never None.
C16_ChildIndexIsInteger ==
    result.op = "get_child_index" => result.val.type = "int"

\* the tags lldb_lookup.summary_lookup has a formatter for, and lookup.py's
LldbFormatterTags == {STD_VEC, STD_STRING, STD_STR}
JbFormatterTags == {JB_STD_VEC, JB_STD_STRING, JB_STD_STR, JB_STD_RC}

\* C17: summary_lookup returns the empty string, never None, for a value
\* whose tag has no formatter, and a formatter's result only for Vec, String,
\* &str and, in lookup.py, Rc.
C17_SummaryEmptyNotNone ==
    /\ result.op = "summary_lookup" =>
            \/ result.arg = AssertionError
            \/ /\ result.val # NoneResult
               /\ result.arg \notin LldbFormatterTags => result.val = StrResult(<<>>)
               /\ result.val # StrResult(<<>>) => result.arg \in LldbFormatterTags
    /\ result.op = "jb_summary_lookup" =>
            /\ result.val # NoneResult
            /\ result.arg \notin JbFormatterTags => result.val = StrResult(<<>>)
            /\ result.val # StrResult(<<>>) => result.arg \in JbFormatterTags

\* lookup.summary_lookup answered "" for a HashMap
C17_Witness ==
    /\ result.op = "jb_summary_lookup"
    /\ result.arg = JB_STD_HASHMAP
    /\ result.val = StrResult(<<>>)

\* C18: an index other than -1 that get_child_index(name) returns is a child's:
\* 0 <= i < num_children(); here for the Struct and Tuple providers.
C18_IndexWithinCount ==
    (/\ result.op = "get_child_index"
     /\ provider.class \in {"StructSyntheticProvider", "TupleSyntheticProvider"}
     /\ result.val.type = "int"
     /\ result.val.int # -1) =>
        /\ 0 <= result.val.int
        /\ result.val.int < num_children_of(provider, valType)

====
